---- MODULE Spec2Model ----
(***************************************************************************)
(* A model of the Interp op kernel of exoplanet/ops/interp/interp_op.cc:   *)
(* InterpOp<T>::Compute (shape validation, output allocation, the row      *)
(* loop, the sharded work lambda) and search_sorted.                       *)
(*                                                                         *)
(* A value of the element type T is an exact fraction                     *)
(* <<numerator, denominator>> with denominator >= 0: <<1, 0>> and          *)
(* <<-1, 0>> are the infinities and <<0, 0>> is NaN.  The queries t and    *)
(* the outputs v and a hold such values.  The periods p, the knot          *)
(* positions x and the knot values y are whole numbers and are held as     *)
(* integers.  Floating-point rounding is not modelled.                     *)
(* Tensors are flat, row-major sequences, as flat_inner_dims presents      *)
(* them.  Every dimension has size >= 1.                                   *)
(***************************************************************************)
EXTENDS Integers, Sequences, FiniteSets

VARIABLES
  tshape, pshape, xshape, yshape,  \* shapes of the inputs t, p, x, y
  t, p, x, y,                      \* their elements, flat and row-major
  pc,                              \* position of Compute
  status,                          \* the OpKernelContext's status
  out,                             \* allocated outputs: name -> flat elements
  fill,                            \* what the allocator left in the outputs
  k,                               \* the row loop's counter
  shards,                          \* running work(begin, end) calls, by begin
  wcount,                          \* writes so far: name -> location -> count
  wby,                             \* who wrote: name -> location -> shards
  oob                              \* some read was outside its row

vars == <<tshape, pshape, xshape, yshape, t, p, x, y, pc, status, out, fill,
          k, shards, wcount, wby, oob>>

inputs == <<tshape, pshape, xshape, yshape, t, p, x, y>>

----------------------------------------------------------------------------
(* Bounds of the model. *)

MaxM == 4          \* knots per row, data specifications
MaxX == 2          \* knot positions are 0..MaxX
MaxT == 3          \* queries are -MaxT..MaxT
MaxP == 3          \* periods are -1..MaxP
MaxY == 1          \* knot values are 0..MaxY
MaxRank == 2       \* ranks of the shapes, shape specification
MaxN == 3          \* queries per row, sharding specification
MaxWorkers == 2    \* work(begin, end) calls one Shard makes

DimSizes == {1, 2}
AllocFill == {0, 7}
OutNames == {"v", "a", "inds"}

----------------------------------------------------------------------------
(* Arithmetic of the element type. *)

\* C++ integer division, truncating toward zero (d > 0)
CDiv(n, d) == IF n >= 0 THEN n \div d ELSE -((-n) \div d)

NaN == <<0, 0>>
Inf == <<1, 0>>
NegInf == <<-1, 0>>
Num(n) == <<n, 1>>
IsNaN(v) == v = NaN
IsFinite(v) == v[2] # 0

Sgn(n) == IF n > 0 THEN 1 ELSE IF n < 0 THEN -1 ELSE 0

\* the comparisons of a value v with a whole number c: all false for NaN
Le(v, c) == IF IsFinite(v) THEN v[1] <= c * v[2] ELSE v[1] < 0
Ge(v, c) == IF IsFinite(v) THEN v[1] >= c * v[2] ELSE v[1] > 0
Lt(v, c) == IF IsFinite(v) THEN v[1] < c * v[2] ELSE v[1] < 0
Gt(v, c) == IF IsFinite(v) THEN v[1] > c * v[2] ELSE v[1] > 0

\* std::fmod(v, d) for a whole number d > 0: the result has the sign of v;
\* NaN for a NaN or an infinite v
fmod(v, d) ==
  IF ~IsFinite(v) THEN NaN
  ELSE IF v[1] >= 0 THEN Num(v[1] % d)
  ELSE Num(-((-v[1]) % d))

\* v + c and v - c for a whole number c
Plus(v, c) == IF IsFinite(v) THEN <<v[1] + c * v[2], v[2]>> ELSE v
Minus(v, c) == Plus(v, -c)

\* v / d for a whole number d (a division by zero gives an infinity or NaN)
Over(v, d) ==
  IF ~IsFinite(v) THEN (IF d < 0 THEN <<-v[1], 0>> ELSE v)
  ELSE IF d = 0 THEN <<Sgn(v[1]), 0>>
  ELSE IF d < 0 THEN <<-v[1], v[2] * (-d)>>
  ELSE <<v[1], v[2] * d>>

\* v * c for a whole number c (an infinity times zero is NaN)
Times(v, c) == IF IsFinite(v) THEN <<v[1] * c, v[2]>> ELSE <<v[1] * Sgn(c), 0>>

\* u + v (infinities of opposite sign add up to NaN)
Sum(u, v) ==
  IF IsFinite(u) /\ IsFinite(v) THEN <<u[1] * v[2] + v[1] * u[2], u[2] * v[2]>>
  ELSE IF IsNaN(u) \/ IsNaN(v) THEN NaN
  ELSE IF IsFinite(u) THEN v
  ELSE IF IsFinite(v) THEN u
  ELSE IF u = v THEN u ELSE NaN

\* 1.0 - v
OneMinus(v) == IF IsFinite(v) THEN <<v[2] - v[1], v[2]>> ELSE <<-v[1], 0>>

RECURSIVE Prod(_)
Prod(s) == IF Len(s) = 0 THEN 1 ELSE Head(s) * Prod(Tail(s))

\* TensorShape::num_elements
NumElements(shape) == Prod(shape)

----------------------------------------------------------------------------
(* InterpOp::Compute: the checks on the shapes. *)

\* the loop over the outer dimensions, from dimension j (1-based) on
RECURSIVE CheckOuterDims(_, _, _, _)
CheckOuterDims(ts, ps, xs, j) ==
  IF j > Len(ts) - 1 THEN "OK"
  ELSE IF xs[j] = ts[j] /\ ps[j] = ts[j] THEN CheckOuterDims(ts, ps, xs, j + 1)
  ELSE "incompatible dimensions"

\* ValidateShapes comparing the ranks of x and y where it should compare shapes
ValidateShapes_RankOnly(ts, ps, xs, ys) ==
  LET ndim == Len(ts) IN
  IF ~(ndim >= 1) THEN "t must be at least 1D"
  ELSE IF ~(Len(ps) = ndim - 1) THEN "p must have the dimension len(t.shape) - 1"
  ELSE IF ~(Len(xs) = ndim) THEN "x and t must have the same number of dimensions"
  ELSE IF ~(Len(ys) = Len(xs)) THEN "x and y must be the same shape"
  ELSE CheckOuterDims(ts, ps, xs, 1)

\* the OP_REQUIRES sequence: "OK", or the message of the first that fails
ValidateShapes(ts, ps, xs, ys) ==
  LET ndim == Len(ts) IN
  IF ~(ndim >= 1) THEN "t must be at least 1D"
  ELSE IF ~(Len(ps) = ndim - 1) THEN "p must have the dimension len(t.shape) - 1"
  ELSE IF ~(Len(xs) = ndim) THEN "x and t must have the same number of dimensions"
  ELSE IF ~(ys = xs) THEN "x and y must be the same shape"
  ELSE CheckOuterDims(ts, ps, xs, 1)

\* size, N and M, read once the checks have passed
size == Prod(SubSeq(tshape, 1, Len(tshape) - 1))
N == tshape[Len(tshape)]
M == xshape[Len(xshape)]

----------------------------------------------------------------------------
(* Rows of the flat tensors; i and n are 0-based as in the source. *)

InRow(i, len) == i \in 0..(len - 1)

\* t(r, n), x(r, i), y(r, i) of flat_inner_dims<T, 2>.  An element read
\* outside its row yields some value of the grid, 0 here, and oob records
\* that it happened.
tAt(r, n) == IF InRow(n, N) THEN t[r * N + n + 1] ELSE Num(0)
xAt(r, i) == IF InRow(i, M) THEN x[r * M + i + 1] ELSE 0
yAt(r, i) == IF InRow(i, M) THEN y[r * M + i + 1] ELSE 0
LocAt(r, n) == r * N + n + 1

\* the row pointers tk, xk, yk, and vk, ak, indsk, of the current row
tk(n) == tAt(k, n)
xk(i) == xAt(k, i)
yk(i) == yAt(k, i)
Loc(n) == LocAt(k, n)

----------------------------------------------------------------------------
(* search_sorted, one iteration of its loop at a time. *)

Probe(low, high) == CDiv(low + high, 2)

\* SearchStep comparing with >= where the source compares with >
SearchStep_GreaterEqual(low, high, xv, value) ==
  IF Le(value, xv) THEN <<low, Probe(low, high)>> ELSE <<Probe(low, high), high>>

\* SearchStep moving low past the probe, as a closed-interval search would
SearchStep_SkipProbe(low, high, xv, value) ==
  IF Lt(value, xv) THEN <<low, Probe(low, high)>> ELSE <<Probe(low, high) + 1, high>>

\* the loop body: the new <<low, high>>, xv the knot read at the probe
SearchStep(low, high, xv, value) ==
  IF Lt(value, xv) THEN <<low, Probe(low, high)>> ELSE <<Probe(low, high), high>>

\* the loop on row r from <<low, high>> to its exit: what search_sorted returns
RECURSIVE SearchFrom(_, _, _, _)
SearchFrom(r, low, high, value) ==
  IF high - low > 1
    THEN LET lh == SearchStep(low, high, xAt(r, Probe(low, high)), value)
         IN  SearchFrom(r, lh[1], lh[2], value)
    ELSE high

search_sorted(r, value) == SearchFrom(r, -1, M, value)

----------------------------------------------------------------------------
(* The work lambda: one query. *)

\* Wrap without the second fold of a negative value
Wrap_SingleFold(value, period) ==
  IF period > 0 THEN fmod(value, period) ELSE value

\* wrap into the required period
Wrap(value, period) ==
  IF period > 0
    THEN LET trunc_mod == fmod(value, period)
         IN  IF Ge(value, 0) THEN trunc_mod ELSE fmod(Plus(trunc_mod, period), period)
    ELSE value

\* Branch with a strict comparison against the first knot
Branch_StrictLow(value, x0, xlast) ==
  IF Lt(value, x0) THEN "low"
  ELSE IF Ge(value, xlast) THEN "high"
  ELSE "interior"

\* which of the three branches a wrapped value takes
Branch(value, x0, xlast) ==
  IF Le(value, x0) THEN "low"
  ELSE IF Ge(value, xlast) THEN "high"
  ELSE "interior"

\* LowWrites storing a fraction of 0 as well
LowWrites_AlsoA(y0) ==
  [o \in OutNames |-> IF o = "v" THEN Num(y0) ELSE IF o = "a" THEN Num(0) ELSE 0]

\* what each branch writes: output name -> value
LowWrites(y0) == [o \in {"v", "inds"} |-> IF o = "v" THEN Num(y0) ELSE 0]

\* HighWrites storing M where it should store M + 1
HighWrites_IndexM(ylast, m) ==
  [o \in {"v", "inds"} |-> IF o = "v" THEN Num(ylast) ELSE m]

HighWrites(ylast, m) ==
  [o \in {"v", "inds"} |-> IF o = "v" THEN Num(ylast) ELSE m + 1]

\* a0 = (value - xk[ind-1]) / (xk[ind] - xk[ind-1])
Frac(value, xlo, xhi) == Over(Minus(value, xlo), xhi - xlo)

\* Lerp with the two weights exchanged
Lerp_Swapped(a0, ylo, yhi) == Sum(Times(a0, ylo), Times(OneMinus(a0), yhi))

\* a0 * yk[ind] + (1.0 - a0) * yk[ind-1]
Lerp(a0, ylo, yhi) == Sum(Times(a0, yhi), Times(OneMinus(a0), ylo))

InteriorWrites(r, ind, value) ==
  LET a0 == Frac(value, xAt(r, ind - 1), xAt(r, ind)) IN
  [o \in OutNames |->
     IF o = "inds" THEN ind
     ELSE IF o = "a" THEN a0
     ELSE Lerp(a0, yAt(r, ind - 1), yAt(r, ind))]

\* WriteLoc counting from the start of the block, not of the row
WriteLoc_FromBlock(n, begin) == Loc(n - begin)

\* where the value of query n goes in each output
WriteLoc(n, begin) == Loc(n)

\* the outputs, and the record of writes, after shard b wrote ws for query n
Written(ws, n, b) ==
  [o \in OutNames |->
     IF o \in DOMAIN ws THEN [out[o] EXCEPT ![WriteLoc(n, b)] = ws[o]] ELSE out[o]]
Counted(ws, n, b) ==
  [o \in OutNames |->
     IF o \in DOMAIN ws THEN [wcount[o] EXCEPT ![WriteLoc(n, b)] = @ + 1]
     ELSE wcount[o]]
Signed(ws, n, b) ==
  [o \in OutNames |->
     IF o \in DOMAIN ws THEN [wby[o] EXCEPT ![WriteLoc(n, b)] = @ \cup {<<k, b>>}]
     ELSE wby[o]]

\* the body of work's loop for query n of row r, run without interruption
WorkWrites(r, n) ==
  LET value == Wrap(tAt(r, n), p[r + 1])
      br == Branch(value, xAt(r, 0), xAt(r, M - 1))
  IN  IF br = "low" THEN LowWrites(yAt(r, 0))
      ELSE IF br = "high" THEN HighWrites(yAt(r, M - 1), M)
      ELSE InteriorWrites(r, search_sorted(r, value), value)

----------------------------------------------------------------------------
(* Shard: the contiguous blocks of [0, total) handed to work. *)

\* the block boundaries for a set of cut points
Bounds(cuts, total) == {0, total} \cup cuts
BlockEnd(b, cuts, total) ==
  CHOOSE e \in Bounds(cuts, total) :
    e > b /\ \A c \in Bounds(cuts, total) : c > b => e <= c

\* the state of one work(begin, end) call when it starts
NewShard(b, e) ==
  [end |-> e, n |-> b, at |-> "elem", value |-> Num(0), low |-> 0, high |-> 0]

\* the blocks: begin -> the call's state
Blocks(cuts, total) ==
  [b \in Bounds(cuts, total) \ {total} |-> NewShard(b, BlockEnd(b, cuts, total))]

\* a call's state after it finished a query whose wrapped value was value
Advance(s, value) ==
  [s EXCEPT !.n = @ + 1, !.at = IF s.n + 1 < s.end THEN "elem" ELSE "done",
            !.value = value, !.low = 0, !.high = 0]

----------------------------------------------------------------------------
(* The steps of Compute. *)

NoOutputs == [o \in OutNames |-> <<>>]

Validate ==
  /\ pc = "start"
  /\ status' = ValidateShapes(tshape, pshape, xshape, yshape)
  /\ pc' = IF status' = "OK" THEN "validated" ELSE "failed"
  /\ UNCHANGED <<inputs, out, fill, k, shards, wcount, wby, oob>>

\* the three allocate_output calls, each of the shape of t
Allocate ==
  /\ pc = "validated"
  /\ \E g \in AllocFill :
       /\ fill' = g
       /\ out' = [o \in OutNames |->
                    [i \in 1..NumElements(tshape) |-> IF o = "inds" THEN g ELSE Num(g)]]
  /\ wcount' = [o \in OutNames |-> [i \in 1..NumElements(tshape) |-> 0]]
  /\ wby' = [o \in OutNames |-> [i \in 1..NumElements(tshape) |-> {}]]
  /\ k' = 0
  /\ pc' = "loop"
  /\ UNCHANGED <<inputs, status, shards, oob>>

\* the call of Shard for row k
Shard ==
  /\ pc = "loop"
  /\ k < size
  /\ \E cuts \in SUBSET (1..(N - 1)) :
       /\ Cardinality(cuts) < MaxWorkers
       /\ shards' = Blocks(cuts, N)
  /\ pc' = "shard"
  /\ UNCHANGED <<inputs, status, out, fill, k, wcount, wby, oob>>

\* work, query n of block b: wrap, then a clamp or the start of the search
WorkQuery(b) ==
  /\ pc = "shard"
  /\ shards[b].at = "elem"
  /\ LET n == shards[b].n
         value == Wrap(tk(n), p[k + 1])
         br == Branch(value, xk(0), xk(M - 1))
         ws == IF br = "low" THEN LowWrites(yk(0)) ELSE HighWrites(yk(M - 1), M)
     IN  /\ oob' = (oob \/ ~InRow(n, N) \/ ~InRow(0, M) \/ ~InRow(M - 1, M))
         /\ IF br = "interior"
              THEN /\ shards' = [shards EXCEPT ![b] =
                                   [@ EXCEPT !.at = "search", !.value = value,
                                             !.low = -1, !.high = M]]
                   /\ UNCHANGED <<out, wcount, wby>>
              ELSE /\ out' = Written(ws, n, b)
                   /\ wcount' = Counted(ws, n, b)
                   /\ wby' = Signed(ws, n, b)
                   /\ shards' = [shards EXCEPT ![b] = Advance(@, value)]
  /\ UNCHANGED <<inputs, pc, status, fill, k>>

\* search_sorted, one iteration of the while loop
SearchLoop(b) ==
  /\ pc = "shard"
  /\ shards[b].at = "search"
  /\ shards[b].high - shards[b].low > 1
  /\ LET s == shards[b]
         probe == Probe(s.low, s.high)
         lh == SearchStep(s.low, s.high, xk(probe), s.value)
     IN  /\ oob' = (oob \/ ~InRow(probe, M))
         /\ shards' = [shards EXCEPT ![b] = [@ EXCEPT !.low = lh[1], !.high = lh[2]]]
  /\ UNCHANGED <<inputs, pc, status, out, fill, k, wcount, wby>>

\* search_sorted returns high; work interpolates and writes.  When ind is M
\* the reads xk[ind] and yk[ind] are outside the row: the process may fault
\* there, after indsk[n] was written, or go on with whatever it read (a0 and
\* vk[n] are NaN whatever that is: ind is M only for a NaN value)
SearchReturn(b) ==
  /\ pc = "shard"
  /\ shards[b].at = "search"
  /\ ~(shards[b].high - shards[b].low > 1)
  /\ LET s == shards[b]
         ind == s.high
         value == s.value
         ws == InteriorWrites(k, ind, value)
         outside == ~InRow(ind - 1, M) \/ ~InRow(ind, M)
     IN  /\ oob' = (oob \/ outside)
         /\ \E faults \in (IF outside THEN BOOLEAN ELSE {FALSE}) :
              LET got == IF faults THEN [o \in {"inds"} |-> ind] ELSE ws IN
              /\ pc' = IF faults THEN "fault" ELSE pc
              /\ out' = Written(got, s.n, b)
              /\ wcount' = Counted(got, s.n, b)
              /\ wby' = Signed(got, s.n, b)
              /\ shards' = IF faults THEN shards
                           ELSE [shards EXCEPT ![b] = Advance(@, value)]
  /\ UNCHANGED <<inputs, status, fill, k>>

\* Shard returns when every block is done; the row loop goes on or ends
ShardJoin ==
  /\ pc = "shard"
  /\ \A b \in DOMAIN shards : shards[b].at = "done"
  /\ k' = k + 1
  /\ pc' = IF k + 1 < size THEN "loop" ELSE "done"
  /\ shards' = <<>>
  /\ UNCHANGED <<inputs, status, out, fill, wcount, wby, oob>>

Next ==
  \/ Validate
  \/ Allocate
  \/ Shard
  \/ \E b \in DOMAIN shards : WorkQuery(b)
  \/ \E b \in DOMAIN shards : SearchLoop(b)
  \/ \E b \in DOMAIN shards : SearchReturn(b)
  \/ ShardJoin

----------------------------------------------------------------------------
(* Initial states: Compute is about to run on given inputs. *)

Fresh ==
  /\ pc = "start"
  /\ status = "OK"
  /\ out = NoOutputs
  /\ fill = 0
  /\ k = 0
  /\ shards = <<>>
  /\ wcount = NoOutputs
  /\ wby = NoOutputs
  /\ oob = FALSE

LastDim(shape) == IF Len(shape) = 0 THEN 1 ELSE shape[Len(shape)]

\* a tensor of the given shape whose rows each run 0, step, 2 * step, ...
Ramp(shape, step) ==
  [i \in 1..NumElements(shape) |-> step * ((i - 1) % LastDim(shape))]

\* a tensor of the given shape holding 0, 1, 2, 0, 1, 2, ... in row-major order
Cycle(shape) == [i \in 1..NumElements(shape) |-> Num((i - 1) % 3)]

\* the values a query takes: the whole numbers lo..hi
Whole(lo, hi) == {Num(i) : i \in lo..hi}

IsSorted(row) == \A i \in 1..(Len(row) - 1) : row[i] <= row[i + 1]

RECURSIVE ShapesOfRank(_)
ShapesOfRank(r) ==
  IF r = 0 THEN {<<>>}
  ELSE {Append(s, d) : s \in ShapesOfRank(r - 1), d \in DimSizes}

Shapes == UNION {ShapesOfRank(r) : r \in 0..MaxRank}

\* one query per row.  Either one row: any knot positions, any period, any
\* query, the infinities and NaN too; or two rows of up to two knots
Init ==
  /\ Fresh
  /\ \/ /\ \E m \in 1..MaxM :
             /\ tshape = <<1>> /\ pshape = <<>> /\ xshape = <<m>> /\ yshape = <<m>>
             /\ x \in [1..m -> 0..MaxX]
        /\ t \in [1..1 -> Whole(-MaxT, MaxT) \cup {Inf, NegInf, NaN}]
        /\ p \in [1..1 -> (-1)..MaxP]
     \/ /\ \E m \in 1..2 :
             /\ tshape = <<2, 1>> /\ pshape = <<2>>
             /\ xshape = <<2, m>> /\ yshape = <<2, m>>
             /\ x \in [1..(2 * m) -> 0..MaxX]
        /\ t \in [1..2 -> Whole(-1, MaxX) \cup {NaN}]
        /\ p \in [1..2 -> {0, MaxP}]
  /\ y = Ramp(yshape, 10)

\* one row, one query: sorted knot positions, any knot values, no period
InitLinear ==
  /\ Fresh
  /\ \E m \in 1..MaxM :
       /\ tshape = <<1>> /\ pshape = <<>> /\ xshape = <<m>> /\ yshape = <<m>>
       /\ x \in {row \in [1..m -> 0..MaxX] : IsSorted(row)}
       /\ y \in [1..m -> 0..MaxY]
  /\ t \in [1..1 -> Whole(0, MaxX)]
  /\ p = <<0>>

\* any four shapes, valid or not
InitShape ==
  /\ Fresh
  /\ tshape \in Shapes /\ pshape \in Shapes
  /\ xshape \in Shapes /\ yshape \in Shapes
  /\ t = Cycle(tshape)
  /\ p = Ramp(pshape, 0)
  /\ x = Ramp(xshape, 2)
  /\ y = Ramp(yshape, 10)

\* one row of up to MaxN queries, NaN among them, over the knots 0, 2
InitShard ==
  /\ Fresh
  /\ \E n \in 1..MaxN :
       /\ tshape = <<n>>
       /\ t \in [1..n -> Whole(0, MaxX) \cup {NaN}]
  /\ pshape = <<>> /\ xshape = <<2>> /\ yshape = <<2>>
  /\ p = <<0>>
  /\ x = Ramp(xshape, 2)
  /\ y = Ramp(yshape, 10)

Spec == Init /\ [][Next]_vars
SpecLinear == InitLinear /\ [][Next]_vars
SpecShape == InitShape /\ [][Next]_vars
SpecShard == InitShard /\ [][Next]_vars

----------------------------------------------------------------------------
(* What the claims speak of. *)

Rows == 0..(size - 1)
Queries == 0..(N - 1)

\* the wrapped value of query n of row r
Wrapped(r, n) == Wrap(tAt(r, n), p[r + 1])

RowSorted(r) == \A i \in 0..(M - 2) : xAt(r, i) <= xAt(r, i + 1)
RowStrictlySorted(r) == \A i \in 0..(M - 2) : xAt(r, i) < xAt(r, i + 1)

\* the five constraints on the shapes, as the interface states them
ShapesValid ==
  /\ Len(tshape) >= 1
  /\ Len(pshape) = Len(tshape) - 1
  /\ Len(xshape) = Len(tshape)
  /\ yshape = xshape
  /\ \A j \in 1..(Len(tshape) - 1) : xshape[j] = tshape[j] /\ pshape[j] = tshape[j]

InvalidArgument ==
  { "t must be at least 1D",
    "p must have the dimension len(t.shape) - 1",
    "x and t must have the same number of dimensions",
    "x and y must be the same shape",
    "incompatible dimensions" }

NothingAllocated == out = NoOutputs /\ wcount = NoOutputs /\ wby = NoOutputs

----------------------------------------------------------------------------
(* C1: shapes that break a constraint make Compute fail with an            *)
(* InvalidArgument status, and at that point no output is allocated and    *)
(* no output element written; so in particular when rank(p) is not         *)
(* rank(t) - 1.                                                            *)
C1_ShapeRejection ==
  (pc # "start" /\ ~ShapesValid) =>
     /\ pc = "failed"
     /\ status \in InvalidArgument
     /\ NothingAllocated

C1_Witness ==
  /\ pc = "failed"
  /\ Len(tshape) >= 1
  /\ Len(pshape) # Len(tshape) - 1
  /\ status = "p must have the dimension len(t.shape) - 1"

(* C2: after the call, a query whose wrapped value is <= x[k][0] has       *)
(* v = y[k][0] and inds = 0, and its a is what the allocation left there,  *)
(* never written.                                                          *)
C2_ClampLow ==
  pc = "done" =>
    \A r \in Rows : \A n \in Queries :
      Le(Wrapped(r, n), xAt(r, 0)) =>
        /\ out["v"][LocAt(r, n)] = Num(yAt(r, 0))
        /\ out["inds"][LocAt(r, n)] = 0
        /\ out["a"][LocAt(r, n)] = Num(fill)
        /\ wcount["a"][LocAt(r, n)] = 0

C2_Witness ==
  /\ pc = "done"
  /\ M >= 2
  /\ Wrapped(0, 0) = Num(xAt(0, 0))
  /\ xAt(0, 0) < xAt(0, M - 1)
  /\ out["inds"][1] = 0
  /\ fill # 0

(* C3, as claimed: on a sorted row, every query whose wrapped value is     *)
(* >= x[M-1] has v = y[M-1] and inds = M+1, also one equal to x[0].        *)
C3_ClampHigh_AsClaimed ==
  pc = "done" =>
    \A r \in Rows : \A n \in Queries :
      (RowSorted(r) /\ Ge(Wrapped(r, n), xAt(r, M - 1))) =>
        /\ out["v"][LocAt(r, n)] = Num(yAt(r, M - 1))
        /\ out["inds"][LocAt(r, n)] = M + 1

(* C3, amended: on a sorted row, every query whose wrapped value is        *)
(* >= x[M-1] and > x[0] has v = y[M-1] and inds = M+1.                     *)
C3_ClampHigh ==
  pc = "done" =>
    \A r \in Rows : \A n \in Queries :
      ( /\ RowSorted(r)
        /\ Ge(Wrapped(r, n), xAt(r, M - 1))
        /\ Gt(Wrapped(r, n), xAt(r, 0)) ) =>
        /\ out["v"][LocAt(r, n)] = Num(yAt(r, M - 1))
        /\ out["inds"][LocAt(r, n)] = M + 1

C3_Witness ==
  /\ pc = "done"
  /\ M >= 2
  /\ RowSorted(0)
  /\ Wrapped(0, 0) = Num(xAt(0, M - 1))
  /\ Gt(Wrapped(0, 0), xAt(0, 0))
  /\ out["inds"][1] = M + 1

(* C4, as claimed: on a sorted row, a query whose wrapped value is an      *)
(* interior knot x[i], 0 < i < M-1, strictly between x[0] and x[M-1], has  *)
(* inds = i+1.                                                             *)
C4_TieBreak_AsClaimed ==
  pc = "done" =>
    \A r \in Rows : \A n \in Queries : \A i \in 1..(M - 2) :
      ( /\ RowSorted(r)
        /\ Wrapped(r, n) = Num(xAt(r, i))
        /\ Gt(Wrapped(r, n), xAt(r, 0)) /\ Lt(Wrapped(r, n), xAt(r, M - 1)) )
      => out["inds"][LocAt(r, n)] = i + 1

(* C4, amended: the same for an interior knot x[i] with x[i] < x[i+1].     *)
C4_TieBreak ==
  pc = "done" =>
    \A r \in Rows : \A n \in Queries : \A i \in 1..(M - 2) :
      ( /\ RowSorted(r)
        /\ Wrapped(r, n) = Num(xAt(r, i))
        /\ xAt(r, i) < xAt(r, i + 1)
        /\ Gt(Wrapped(r, n), xAt(r, 0)) /\ Lt(Wrapped(r, n), xAt(r, M - 1)) )
      => out["inds"][LocAt(r, n)] = i + 1

C4_Witness ==
  /\ pc = "done"
  /\ M >= 3
  /\ RowSorted(0)
  /\ Wrapped(0, 0) = Num(xAt(0, 1))
  /\ xAt(0, 0) < xAt(0, 1) /\ xAt(0, 1) < xAt(0, 2)
  /\ out["inds"][1] = 2

\* the interval of a sorted row that holds w: i with x[i-1] <= w < x[i]
IntervalOf(r, w) ==
  CHOOSE i \in 1..(M - 1) : Ge(w, xAt(r, i - 1)) /\ Lt(w, xAt(r, i))

(* C5: on a strictly ascending row, a query whose wrapped value w lies     *)
(* strictly between x[0] and x[M-1] has inds = idx, the interval holding   *)
(* w, a = (w - x[idx-1]) / (x[idx] - x[idx-1]) and                         *)
(* v = a*y[idx] + (1-a)*y[idx-1] = y[idx-1] + a*(y[idx] - y[idx-1]), the   *)
(* equalities of fractions taken cross-multiplied.                         *)
C5_LinearExact ==
  pc = "done" =>
    \A r \in Rows : \A n \in Queries :
      LET w == Wrapped(r, n) IN
      (RowStrictlySorted(r) /\ Gt(w, xAt(r, 0)) /\ Lt(w, xAt(r, M - 1))) =>
        LET idx == IntervalOf(r, w)
            d == xAt(r, idx) - xAt(r, idx - 1)
            e == w[1] - xAt(r, idx - 1) * w[2]     \* (w - x[idx-1]) is e / w[2]
            a0 == out["a"][LocAt(r, n)]
            v0 == out["v"][LocAt(r, n)]
        IN  /\ out["inds"][LocAt(r, n)] = idx
            /\ IsFinite(a0) /\ IsFinite(v0)
            /\ a0[1] * d * w[2] = e * a0[2]
            /\ v0[1] * a0[2] =
                 v0[2] * (a0[1] * yAt(r, idx) + (a0[2] - a0[1]) * yAt(r, idx - 1))
            /\ v0[1] * d * w[2] =
                 v0[2] * (yAt(r, idx - 1) * d * w[2]
                          + e * (yAt(r, idx) - yAt(r, idx - 1)))

C5_Witness ==
  /\ pc = "done"
  /\ RowStrictlySorted(0)
  /\ Gt(Wrapped(0, 0), xAt(0, 0)) /\ Lt(Wrapped(0, 0), xAt(0, M - 1))
  /\ yAt(0, IntervalOf(0, Wrapped(0, 0))) # yAt(0, IntervalOf(0, Wrapped(0, 0)) - 1)
  /\ wcount["a"][1] = 1
  /\ out["a"][1][1] # 0

\* a work call that has wrapped the query it is at, or was last at
HasWrapped(b) == shards[b].at # "elem" \/ shards[b].n > b

\* the query whose wrapped value the call holds
LastQuery(b) == IF shards[b].at = "search" THEN shards[b].n ELSE shards[b].n - 1

Sequential(o) ==
  [i \in 1..NumElements(tshape) |->
     LET r == (i - 1) \div N
         n == (i - 1) % N
         ws == WorkWrites(r, n)
     IN  IF o \in DOMAIN ws THEN ws[o]
         ELSE IF o = "inds" THEN fill ELSE Num(fill)]

(* C7: however [0, N) is cut into contiguous blocks and however the work   *)
(* calls on the blocks interleave, no output location is ever written by   *)
(* two of them, and after the call v, a and inds are what work(0, N) on a  *)
(* single worker produces.                                                 *)
C7_ShardingInvariance ==
  /\ pc \in {"loop", "shard", "done"} =>
       \A o \in OutNames : \A i \in 1..NumElements(tshape) :
         Cardinality(wby[o][i]) <= 1
  /\ pc = "done" => \A o \in OutNames : out[o] = Sequential(o)

C7_Witness ==
  /\ pc = "done"
  /\ N >= 3
  /\ \E i, j \in 1..N : i # j /\ wby["v"][i] # {} /\ wby["v"][j] # {}
                        /\ wby["v"][i] # wby["v"][j]
  /\ \E i \in 1..N : wcount["a"][i] = 1
  /\ \E i \in 1..N : wcount["a"][i] = 0

\* a work call inside search_sorted
Searching(b) == shards[b].at = "search"

\* the loop of search_sorted has ended in call b
SearchEnded(b) == Searching(b) /\ ~(shards[b].high - shards[b].low > 1)

C8_Return ==
  pc = "shard" =>
    \A b \in DOMAIN shards :
      ( /\ Searching(b) /\ RowSorted(k) /\ M >= 2
        /\ Gt(shards[b].value, xk(0)) /\ Lt(shards[b].value, xk(M - 1)) ) =>
        LET s == shards[b] IN
        /\ s.high - s.low >= 1
        /\ (s.high - s.low > 1) => Probe(s.low, s.high) \in 0..(M - 1)
        /\ SearchEnded(b) =>
             /\ s.high \in 1..(M - 1)
             /\ Lt(s.value, xk(s.high))
             /\ \A i \in 1..(M - 1) : Lt(s.value, xk(i)) => s.high <= i
             /\ Ge(s.value, xk(s.high - 1))
             /\ \A i \in 1..(M - 1) :
                  (Ge(s.value, xk(i - 1)) /\ Lt(s.value, xk(i))) => i = s.high

C8_GapDecreases ==
  \A b \in DOMAIN shards :
    ( /\ Searching(b) /\ RowSorted(k) /\ M >= 2
      /\ Gt(shards[b].value, xk(0)) /\ Lt(shards[b].value, xk(M - 1))
      /\ b \in DOMAIN shards' /\ shards'[b] # shards[b] /\ shards'[b].at = "search" )
      => shards'[b].high - shards'[b].low < shards[b].high - shards[b].low

(* C8: on a sorted row of M >= 2 knots and a value strictly between x[0]   *)
(* and x[M-1], every iteration of search_sorted's loop probes an index in  *)
(* [0, M-1] and strictly narrows high - low, which ends at 1; what is      *)
(* returned is the smallest i in [1, M-1] with x[i] > value, the only i    *)
(* with x[i-1] <= value < x[i].                                            *)
C8_BoundedSearch == [](C8_Return) /\ [][C8_GapDecreases]_vars

C8_Witness ==
  /\ pc = "shard"
  /\ M >= 4
  /\ RowSorted(k)
  /\ \E b \in DOMAIN shards :
       /\ SearchEnded(b)
       /\ shards[b].high = 2
       /\ shards[b].value = Num(xk(1))

(* C9, as claimed: after a successful call every query has had exactly one *)
(* value written into each of v, a and inds.                               *)
C9_OneWriteEach_AsClaimed ==
  pc = "done" =>
    \A o \in OutNames : \A i \in 1..NumElements(tshape) : wcount[o][i] = 1

\* the branch query n of row r takes
BranchOf(r, n) == Branch(Wrapped(r, n), xAt(r, 0), xAt(r, M - 1))

(* C9, amended: after a successful call every query has had exactly one    *)
(* value written into each of v and inds; into a exactly one in the        *)
(* interior branch and none in the two clamps; the outputs hold one        *)
(* element per query and nothing else was written.                         *)
C9_OneWriteEach ==
  pc = "done" =>
    /\ \A o \in OutNames : DOMAIN out[o] = 1..(size * N) /\ DOMAIN wcount[o] = DOMAIN out[o]
    /\ \A r \in Rows : \A n \in Queries :
         /\ wcount["v"][LocAt(r, n)] = 1
         /\ wcount["inds"][LocAt(r, n)] = 1
         /\ wcount["a"][LocAt(r, n)] = IF BranchOf(r, n) = "interior" THEN 1 ELSE 0

C9_Witness ==
  /\ pc = "done"
  /\ BranchOf(0, 0) = "low"
  /\ wcount["v"][1] = 1 /\ wcount["inds"][1] = 1 /\ wcount["a"][1] = 0

(* C10: whatever the knot row holds, sorted or not, search_sorted returns  *)
(* an index in [1, M-1] whenever the interior branch is taken, no read of  *)
(* x or y leaves its row, and every inds element written is 0, in          *)
(* [1, M-1] or M+1, never M.                                               *)
C10_IndexSafety ==
  /\ ~oob
  /\ pc = "shard" =>
       \A b \in DOMAIN shards : SearchEnded(b) => shards[b].high \in 1..(M - 1)
  /\ pc \in {"loop", "shard", "done", "fault"} =>
       \A i \in 1..NumElements(tshape) :
         wcount["inds"][i] > 0 =>
           /\ out["inds"][i] \in ({0} \cup 1..(M - 1) \cup {M + 1})
           /\ out["inds"][i] # M

\* what holds of the code: the same for the searches whose value lies
\* strictly between x[0] and x[M-1], and for the queries that are not NaN
\* once wrapped
C10_OnNumbers ==
  /\ pc = "shard" =>
       \A b \in DOMAIN shards :
         (SearchEnded(b) /\ Gt(shards[b].value, xk(0)) /\ Lt(shards[b].value, xk(M - 1)))
           => shards[b].high \in 1..(M - 1)
  /\ oob => \E r \in Rows : \E n \in Queries : IsNaN(Wrapped(r, n))
  /\ pc \in {"loop", "shard", "done", "fault"} =>
       \A r \in Rows : \A n \in Queries :
         (wcount["inds"][LocAt(r, n)] > 0 /\ ~IsNaN(Wrapped(r, n))) =>
           out["inds"][LocAt(r, n)] \in ({0} \cup 1..(M - 1) \cup {M + 1})

============================================================================
